---- MODULE Spec2Model ----
(***************************************************************************)
(* Model of the node bindings of ssb-validate2-rsjs-node (src/lib.rs):     *)
(* the HMAC key normaliser is_valid_hmac_key, the key deriver hash and the *)
(* five exported operations verifySignatures, validateSingle,              *)
(* validateBatch, validateOOOBatch and validateMultiAuthorBatch.           *)
(*                                                                         *)
(* One call is one run of the state machine below.  The data-parallel      *)
(* library calls (par_verify_message_values, par_validate_...) are         *)
(* modelled as one worker step per message, in any order, with the first   *)
(* failing worker to complete deciding the aggregate error; the scalar     *)
(* re-check that locates the offender is part of the join step.            *)
(***************************************************************************)
EXTENDS Integers, Sequences, FiniteSets, TLC

VARIABLES pc, op, hmac_key, array, previous, hmac, done, e, ret, sigRun, chainRun

vars == <<pc, op, hmac_key, array, previous, hmac, done, e, ret, sigRun, chainRun>>

(***************************************************************************)
(* Bounds                                                                  *)
(***************************************************************************)
MaxLen == 3

MaxKeyLen == 34

(***************************************************************************)
(* Option and Result values                                                *)
(***************************************************************************)
None == [some |-> FALSE]

Some(v) == [some |-> TRUE, val |-> v]

Ok(v) == [ok |-> TRUE, val |-> v]

Err(x) == [ok |-> FALSE, err |-> x]

(***************************************************************************)
(* Base64 (standard alphabet, canonical padding).  A character is its      *)
(* alphabet index 0..63, PAD is '=', BADCH is a character outside the      *)
(* alphabet.                                                               *)
(***************************************************************************)
PAD == 64

BADCH == 65

Invalid == [ok |-> FALSE, err |-> "invalid base64"]

Decoded(b) == [ok |-> TRUE, val |-> b]

RECURSIVE Base64Encode(_)
Base64Encode(b) ==
    IF Len(b) = 0 THEN <<>>
    ELSE IF Len(b) = 1 THEN
        <<b[1] \div 4, (b[1] % 4) * 16, PAD, PAD>>
    ELSE IF Len(b) = 2 THEN
        <<b[1] \div 4, (b[1] % 4) * 16 + b[2] \div 16, (b[2] % 16) * 4, PAD>>
    ELSE
        <<b[1] \div 4, (b[1] % 4) * 16 + b[2] \div 16,
          (b[2] % 16) * 4 + b[3] \div 64, b[3] % 64>>
        \o Base64Encode(SubSeq(b, 4, Len(b)))

RECURSIVE Base64DecodeGroups(_)
Base64DecodeGroups(s) ==
    IF Len(s) = 0 THEN Decoded(<<>>)
    ELSE
        LET c1 == s[1]
            c2 == s[2]
            c3 == s[3]
            c4 == s[4]
            last == Len(s) = 4
        IN  IF c1 >= PAD \/ c2 >= PAD THEN Invalid
            ELSE IF c3 = PAD THEN
                IF last /\ c4 = PAD /\ c2 % 16 = 0
                THEN Decoded(<<c1 * 4 + c2 \div 16>>)
                ELSE Invalid
            ELSE IF c3 > PAD THEN Invalid
            ELSE IF c4 = PAD THEN
                IF last /\ c3 % 4 = 0
                THEN Decoded(<<c1 * 4 + c2 \div 16, (c2 % 16) * 16 + c3 \div 4>>)
                ELSE Invalid
            ELSE IF c4 > PAD THEN Invalid
            ELSE
                LET rest == Base64DecodeGroups(SubSeq(s, 5, Len(s)))
                IN  IF ~rest.ok THEN Invalid
                    ELSE Decoded(<<c1 * 4 + c2 \div 16, (c2 % 16) * 16 + c3 \div 4,
                                   (c3 % 4) * 64 + c4>> \o rest.val)

Base64Decode(s) ==
    IF Len(s) % 4 # 0 THEN Invalid ELSE Base64DecodeGroups(s)

(***************************************************************************)
(* HMAC key normaliser                                                     *)
(***************************************************************************)
KEY_BYTES == 32

Buf(b) == <<"Buf", b>>

Str(s) == <<"Str", s>>

\* the string "none" in alphabet indices: n = 39, o = 40, e = 30
NoneStr == <<39, 40, 39, 30>>

ByteLenErr == <<"hmac key invalid: byte length must equal 32">>

Base64Err == <<"hmac key invalid: string must be base64 encoded">>

from_slice(b) == IF Len(b) = KEY_BYTES THEN Some(b) ELSE None

from_base64(s) ==
    LET d == Base64Decode(s)
    IN  IF d.ok /\ Len(d.val) = KEY_BYTES THEN Some(d.val) ELSE None

\* is_valid_hmac_key without the test for the sentinel "none"
is_valid_hmac_key_no_sentinel(k) ==
    IF k[1] = "Buf"
    THEN LET key == from_slice(k[2])
         IN  IF key.some THEN Ok(Some(key.val)) ELSE Err(ByteLenErr)
    ELSE LET key == from_base64(k[2])
         IN  IF key.some THEN Ok(Some(key.val)) ELSE Err(Base64Err)

is_valid_hmac_key(k) ==
    IF k[1] = "Buf"
    THEN LET key == from_slice(k[2])
         IN  IF key.some THEN Ok(Some(key.val)) ELSE Err(ByteLenErr)
    ELSE LET key == from_base64(k[2])
         IN  IF k[2] = NoneStr THEN Ok(None)
             ELSE IF key.some THEN Ok(Some(key.val))
             ELSE Err(Base64Err)

(***************************************************************************)
(* Messages and keys                                                       *)
(***************************************************************************)
Null == <<"null">>

multihash_from_bytes(m) == <<"sha256", m>>

to_legacy_string(h) == <<"%", h[2], ".sha256">>

derive_key(m) == to_legacy_string(multihash_from_bytes(m))

Msg(a, s, p, g, w) ==
    [author |-> a, sequence |-> s, previous |-> p, sig |-> g, wellformed |-> w]

a1 == Msg("A", 1, Null, "good", TRUE)

a2 == Msg("A", 2, derive_key(a1), "good", TRUE)

a3 == Msg("A", 3, derive_key(a2), "good", TRUE)

b1 == Msg("B", 1, Null, "good", TRUE)

b2 == Msg("B", 2, derive_key(b1), "good", TRUE)

\* a2 with a signature that does not verify
a2s == Msg("A", 2, derive_key(a1), "bad", TRUE)

\* a3 with a previous field that names a1 instead of a2
a3p == Msg("A", 3, derive_key(a1), "good", TRUE)

\* a2 with its fields serialised in the wrong order
a2w == Msg("A", 2, derive_key(a1), "good", FALSE)

\* a1 with a signature the scalar check accepts and the batch check rejects
a1e == Msg("A", 1, Null, "edge", TRUE)

\* a first message signed under the MAC key
k1 == Msg("A", 1, Null, "keyed", TRUE)

\* a3 with its author field changed to B
a3b == Msg("B", 3, derive_key(a2), "good", TRUE)

Messages == {a1, a2, a3, b1, b2, a2s, a3p, a3b, a2w, a1e, k1}

\* <<m, c>>: c is m with its signature or one chain field corrupted
Corruptions == {<<a2, a2s>>, <<a3, a3p>>, <<a3, a3b>>}

Previouses == {None, Some(a1), Some(a2)}

RECURSIVE SeqsUpTo(_, _)
SeqsUpTo(S, n) ==
    IF n = 0 THEN {<<>>}
    ELSE LET shorter == SeqsUpTo(S, n - 1)
         IN  shorter \cup {Append(s, x) : s \in {t \in shorter : Len(t) = n - 1}, x \in S}

Arrays == SeqsUpTo(Messages, MaxLen)

Bytes(len, seed) == [i \in 1..len |-> (seed * 37 + i * 11) % 256]

MacKey == Bytes(KEY_BYTES, 1)

Buffers == {Bytes(len, seed) : len \in 0..MaxKeyLen, seed \in 1..2}

\* a string with one character replaced by a character outside the alphabet
Spoil(s) == IF Len(s) = 0 THEN <<BADCH>> ELSE [s EXCEPT ![1] = BADCH]

\* a string with its last character cut off
Cut(s) == IF Len(s) = 0 THEN <<PAD>> ELSE SubSeq(s, 1, Len(s) - 1)

KeyInputs ==
    {Buf(b) : b \in Buffers}
    \cup {Str(Base64Encode(b)) : b \in Buffers}
    \cup {Str(Spoil(Base64Encode(b))) : b \in Buffers}
    \cup {Str(Cut(Base64Encode(b))) : b \in Buffers}
    \cup {Str(NoneStr)}

HmacKeys == {Str(NoneStr), Buf(MacKey), Buf(Bytes(KEY_BYTES - 1, 1)), Str(<<BADCH>>)}

(***************************************************************************)
(* Signature verifier (crate ssb_verify_signatures, called from lib.rs).   *)
(* A message carries the outcome of the cryptographic check in its sig     *)
(* field: "good" verifies without a MAC key, "keyed" verifies under the    *)
(* MAC key, "bad" never verifies.  "edge" stands for a signature on which  *)
(* the batched check and the scalar check disagree (the batch rejects it,  *)
(* the scalar check accepts it); it is what makes the None arm of the      *)
(* offender search of the signature phase reachable.                       *)
(***************************************************************************)
InvalidSignature == <<"Signature was invalid">>

verify_message_value(m, key) ==
    IF key.some
    THEN IF m.sig = "keyed" THEN Ok(<<>>) ELSE Err(InvalidSignature)
    ELSE IF m.sig \in {"good", "edge"} THEN Ok(<<>>) ELSE Err(InvalidSignature)

\* one worker of par_verify_message_values
par_verify_worker(m, key) ==
    IF key.some
    THEN IF m.sig = "keyed" THEN Ok(<<>>) ELSE Err(InvalidSignature)
    ELSE IF m.sig = "good" THEN Ok(<<>>) ELSE Err(InvalidSignature)

(***************************************************************************)
(* Hash-chain validator (crate ssb_validate, module message_value, called  *)
(* from lib.rs).  validate_message_value_hash_chain checks a message       *)
(* against an optional predecessor: author, sequence and previous key when *)
(* there is one, sequence 1 and previous null when there is none.          *)
(* validate_ooo_message_value_hash_chain checks only the author against    *)
(* an optional predecessor.  validate_message_value takes the message      *)
(* alone and checks nothing that relates it to another message.  All       *)
(* three reject a message whose own fields are malformed.                  *)
(***************************************************************************)
InvalidOrder == <<"The message value fields are not in the correct order">>

AuthorsDidNotMatch == <<"The authors did not match">>

InvalidSequenceNo == <<"The sequence number was not previous + 1">>

InvalidPreviousMessage == <<"The previous field did not match the previous key">>

FirstNotSequenceOne == <<"The first message did not have sequence 1">>

FirstNotPreviousNull == <<"The first message did not have previous null">>

validate_message_value(m) ==
    IF ~m.wellformed THEN Err(InvalidOrder) ELSE Ok(<<>>)

validate_message_value_hash_chain(m, prev) ==
    IF ~m.wellformed THEN Err(InvalidOrder)
    ELSE IF prev.some THEN
        IF m.author # prev.val.author THEN Err(AuthorsDidNotMatch)
        ELSE IF m.sequence # prev.val.sequence + 1 THEN Err(InvalidSequenceNo)
        ELSE IF m.previous # derive_key(prev.val) THEN Err(InvalidPreviousMessage)
        ELSE Ok(<<>>)
    ELSE
        IF m.sequence # 1 THEN Err(FirstNotSequenceOne)
        ELSE IF m.previous # Null THEN Err(FirstNotPreviousNull)
        ELSE Ok(<<>>)

validate_ooo_message_value_hash_chain(m, prev) ==
    IF ~m.wellformed THEN Err(InvalidOrder)
    ELSE IF prev.some /\ m.author # prev.val.author THEN Err(AuthorsDidNotMatch)
    ELSE Ok(<<>>)

(***************************************************************************)
(* Helpers of the exported operations                                      *)
(***************************************************************************)
BatchOps == {"verifySignatures", "validateBatch", "validateOOOBatch",
             "validateMultiAuthorBatch"}

Ops == BatchOps \cup {"validateSingle"}

HasPrevious(o) == o \in {"validateSingle", "validateBatch"}

\* the message's bytes rendered as text by std::str::from_utf8; the bytes
\* come from a String, so the conversion cannot fail
Text(m) == <<"text", m>>

SigDiag == <<"diag", "parallel verification failed but no single invalid message was found">>

ChainDiag == <<"diag", "parallel validation failed but no single invalid message was found">>

format(cause, str) == <<"found invalid message: ", cause, ": ", str>>

\* failure that also hands out a key list
failure_with_keys(err_msg) == <<Some(err_msg), Some(<<>>)>>

failure(err_msg) == <<Some(err_msg), None>>

success(payload) == <<None, Some(payload)>>

NoRet == <<None, None>>

\* hash pushing the keys in the order of completion, last message first
hash_reversed(msgs) ==
    [i \in 1..Len(msgs) |-> derive_key(msgs[Len(msgs) + 1 - i])]

hash(msgs) == [i \in 1..Len(msgs) |-> derive_key(msgs[i])]

\* msgs.iter().find(|msg| check(msg).is_err()) with the check results given
find(msgs, results) ==
    LET bad == {i \in 1..Len(msgs) : ~results[i].ok}
    IN  IF bad = {} THEN None
        ELSE Some(msgs[CHOOSE i \in bad : \A j \in bad : i <= j])

\* sig_worker without the verification
sig_worker_skip(o, msgs, key, i) == Ok(<<>>)

\* the signature check one worker runs on the i-th message
sig_worker(o, msgs, key, i) ==
    IF o = "validateSingle"
    THEN verify_message_value(msgs[i], key)
    ELSE par_verify_worker(msgs[i], key)

\* the text quoted when the signature phase has failed
sig_offender(o, msgs, key) ==
    IF o = "validateSingle" THEN Text(msgs[1])
    ELSE LET invalid_msg ==
                 find(msgs, [i \in 1..Len(msgs) |-> verify_message_value(msgs[i], key)])
         IN  IF invalid_msg.some THEN Text(invalid_msg.val) ELSE SigDiag

\* chain_worker that drops the previous argument of validateBatch
chain_worker_no_previous(o, msgs, prev, i) ==
    IF o = "validateSingle" THEN
        validate_message_value_hash_chain(msgs[i], prev)
    ELSE IF o = "validateBatch" THEN
        validate_message_value_hash_chain(msgs[i],
            IF i = 1 THEN None ELSE Some(msgs[i - 1]))
    ELSE IF o = "validateOOOBatch" THEN
        validate_ooo_message_value_hash_chain(msgs[i],
            IF i = 1 THEN None ELSE Some(msgs[i - 1]))
    ELSE validate_message_value(msgs[i])

\* chain_worker that runs the in-order feed check in validateMultiAuthorBatch
chain_worker_multi_in_order(o, msgs, prev, i) ==
    IF o = "validateSingle" THEN
        validate_message_value_hash_chain(msgs[i], prev)
    ELSE IF o = "validateOOOBatch" THEN
        validate_ooo_message_value_hash_chain(msgs[i],
            IF i = 1 THEN None ELSE Some(msgs[i - 1]))
    ELSE validate_message_value_hash_chain(msgs[i],
            IF i = 1 THEN prev ELSE Some(msgs[i - 1]))

\* the chain check one worker runs on the i-th message
chain_worker(o, msgs, prev, i) ==
    IF o = "validateSingle" THEN
        validate_message_value_hash_chain(msgs[i], prev)
    ELSE IF o = "validateBatch" THEN
        validate_message_value_hash_chain(msgs[i],
            IF i = 1 THEN prev ELSE Some(msgs[i - 1]))
    ELSE IF o = "validateOOOBatch" THEN
        validate_ooo_message_value_hash_chain(msgs[i],
            IF i = 1 THEN None ELSE Some(msgs[i - 1]))
    ELSE validate_message_value(msgs[i])

\* the scalar chain re-check of one message when locating the offender
chain_scalar(o, m, prev) ==
    IF o = "validateBatch" THEN validate_message_value_hash_chain(m, prev)
    ELSE IF o = "validateOOOBatch" THEN validate_ooo_message_value_hash_chain(m, None)
    ELSE validate_message_value(m)

\* chain_offender that quotes the first message when find returns None
chain_offender_first(o, msgs, prev) ==
    IF o = "validateSingle" THEN Text(msgs[1])
    ELSE LET invalid_msg ==
                 find(msgs, [i \in 1..Len(msgs) |-> chain_scalar(o, msgs[i], prev)])
         IN  IF invalid_msg.some THEN Text(invalid_msg.val) ELSE Text(msgs[1])

\* the text quoted when the chain phase has failed
chain_offender(o, msgs, prev) ==
    IF o = "validateSingle" THEN Text(msgs[1])
    ELSE LET invalid_msg ==
                 find(msgs, [i \in 1..Len(msgs) |-> chain_scalar(o, msgs[i], prev)])
         IN  IF invalid_msg.some THEN Text(invalid_msg.val) ELSE ChainDiag

\* the phase entered when every signature has verified
after_signatures(o) ==
    IF o = "verifySignatures" THEN "DerivingKeys" ELSE "ValidatingChain"

\* the success payload: one key for validateSingle, the key list otherwise
payload(o, msgs) ==
    IF o = "validateSingle"
    THEN to_legacy_string(multihash_from_bytes(msgs[1]))
    ELSE hash(msgs)

(***************************************************************************)
(* The state machine of one call                                           *)
(***************************************************************************)
Init ==
    /\ pc = "Idle"
    /\ op = "verifySignatures"
    /\ hmac_key = Str(NoneStr)
    /\ array = <<>>
    /\ previous = None
    /\ hmac = None
    /\ done = {}
    /\ e = None
    /\ ret = NoRet
    /\ sigRun = FALSE
    /\ chainRun = FALSE

\* the caller invokes one of the five operations
Call ==
    /\ pc = "Idle"
    /\ \E o \in Ops, k \in HmacKeys, msgs \in Arrays, prev \in Previouses :
           /\ o = "validateSingle" => Len(msgs) = 1
           /\ ~HasPrevious(o) => prev = None
           /\ op' = o
           /\ hmac_key' = k
           /\ array' = msgs
           /\ previous' = prev
    /\ pc' = "Start"
    /\ UNCHANGED <<hmac, done, e, ret, sigRun, chainRun>>

\* let valid_hmac = match is_valid_hmac_key(hmac_key) { ... }
NormalizeKey ==
    /\ pc = "Start"
    /\ LET valid_hmac == is_valid_hmac_key(hmac_key)
       IN  IF valid_hmac.ok
           THEN /\ hmac' = valid_hmac.val
                /\ pc' = "VerifyingSignatures"
                /\ ret' = ret
           ELSE /\ ret' = failure(valid_hmac.err)
                /\ pc' = "KeyRejected"
                /\ hmac' = hmac
    /\ UNCHANGED <<op, hmac_key, array, previous, done, e, sigRun, chainRun>>

\* one worker of the signature phase verifies the i-th message
SigWorker(i) ==
    /\ pc = "VerifyingSignatures"
    /\ i \in 1..Len(array)
    /\ i \notin done
    /\ ~e.some
    /\ LET r == sig_worker(op, array, hmac, i)
       IN  IF r.ok
           THEN /\ done' = done \cup {i}
                /\ e' = e
           ELSE /\ e' = Some(r.err)
                /\ done' = done
    /\ sigRun' = TRUE
    /\ UNCHANGED <<pc, op, hmac_key, array, previous, hmac, ret, chainRun>>

\* the signature phase returns: Ok(_) => (), Err(e) => locate and return
SigJoin ==
    /\ pc = "VerifyingSignatures"
    /\ e.some \/ done = 1..Len(array)
    /\ IF e.some
       THEN /\ ret' = failure(format(e.val, sig_offender(op, array, hmac)))
            /\ pc' = "SignatureFailure"
       ELSE /\ ret' = ret
            /\ pc' = after_signatures(op)
    /\ done' = {}
    /\ sigRun' = TRUE
    /\ UNCHANGED <<op, hmac_key, array, previous, hmac, e, chainRun>>

\* one worker of the chain phase validates the i-th message
ChainWorker(i) ==
    /\ pc = "ValidatingChain"
    /\ i \in 1..Len(array)
    /\ i \notin done
    /\ ~e.some
    /\ LET r == chain_worker(op, array, previous, i)
       IN  IF r.ok
           THEN /\ done' = done \cup {i}
                /\ e' = e
           ELSE /\ e' = Some(r.err)
                /\ done' = done
    /\ chainRun' = TRUE
    /\ UNCHANGED <<pc, op, hmac_key, array, previous, hmac, ret, sigRun>>

\* the chain phase returns: Ok(_) => (), Err(e) => locate and return
ChainJoin ==
    /\ pc = "ValidatingChain"
    /\ e.some \/ done = 1..Len(array)
    /\ IF e.some
       THEN /\ ret' = failure(format(e.val, chain_offender(op, array, previous)))
            /\ pc' = "ChainFailure"
       ELSE /\ ret' = ret
            /\ pc' = "DerivingKeys"
    /\ done' = {}
    /\ chainRun' = TRUE
    /\ UNCHANGED <<op, hmac_key, array, previous, hmac, e, sigRun>>

\* let keys = hash(msgs); (None, Some(keys))
DeriveKeys ==
    /\ pc = "DerivingKeys"
    /\ ret' = success(payload(op, array))
    /\ pc' = "Success"
    /\ UNCHANGED <<op, hmac_key, array, previous, hmac, done, e, sigRun, chainRun>>

Next ==
    \/ Call
    \/ NormalizeKey
    \/ \E i \in 1..MaxLen : SigWorker(i)
    \/ SigJoin
    \/ \E i \in 1..MaxLen : ChainWorker(i)
    \/ ChainJoin
    \/ DeriveKeys

Spec == Init /\ [][Next]_vars

Terminal == pc \in {"KeyRejected", "SignatureFailure", "ChainFailure", "Success"}

TypeOK ==
    /\ pc \in {"Idle", "Start", "VerifyingSignatures", "ValidatingChain",
               "DerivingKeys", "KeyRejected", "SignatureFailure",
               "ChainFailure", "Success"}
    /\ op \in Ops
    /\ Len(array) <= MaxLen
    /\ done \subseteq 1..Len(array)

(***************************************************************************)
(* The key normaliser on its own: the call is followed up to the point     *)
(* where the key is accepted or rejected, over a larger set of keys.       *)
(***************************************************************************)
CallKey ==
    /\ pc = "Idle"
    /\ \E k \in KeyInputs : hmac_key' = k
    /\ pc' = "Start"
    /\ UNCHANGED <<op, array, previous, hmac, done, e, ret, sigRun, chainRun>>

NextKey == CallKey \/ NormalizeKey

SpecKey == Init /\ [][NextKey]_vars

(***************************************************************************)
(* Properties                                                              *)
(***************************************************************************)
KeyDecided == pc \in {"KeyRejected", "VerifyingSignatures"}

KeyAccepted(bytes) == pc = "VerifyingSignatures" /\ hmac = bytes /\ ret = NoRet

KeyRejectedWith(msg) == pc = "KeyRejected" /\ ret[1] = Some(msg) /\ ~ret[2].some

\* C5: is_valid_hmac_key maps the string "none" to Ok(None), a buffer to
\* Ok(Some(bytes)) iff it is 32 bytes long and else to the byte-length error,
\* any other string to Ok(Some(bytes)) iff it base64-decodes to 32 bytes and
\* else to the base64 error; a 32-byte buffer and its base64 encoding give
\* the same key bytes.
C5_KeyClassification ==
    KeyDecided =>
        LET k == hmac_key[2]
        IN  /\ (hmac_key[1] = "Str" /\ k = NoneStr) => KeyAccepted(None)
            /\ hmac_key[1] = "Buf" =>
                   IF Len(k) = 32 THEN KeyAccepted(Some(k))
                   ELSE KeyRejectedWith(ByteLenErr)
            /\ (hmac_key[1] = "Str" /\ k # NoneStr) =>
                   LET d == Base64Decode(k)
                   IN  IF d.ok /\ Len(d.val) = 32 THEN KeyAccepted(Some(d.val))
                       ELSE KeyRejectedWith(Base64Err)
            /\ \A b \in Buffers :
                   (Len(b) = 32 /\ hmac_key = Str(Base64Encode(b))) =>
                       KeyAccepted(Some(b))

\* C5 witness: the base64 string of a 32-byte buffer has been accepted
C5_Witness ==
    /\ pc = "VerifyingSignatures"
    /\ hmac_key[1] = "Str"
    /\ hmac.some
    /\ Buf(hmac.val) \in KeyInputs

Indices == 1..Len(array)

KeyOk == is_valid_hmac_key(hmac_key).ok

\* results of the checks, taken from the library functions directly
ScalarSigOk(i) == verify_message_value(array[i], hmac).ok

AggregateSigOk(i) ==
    IF op = "validateSingle" THEN verify_message_value(array[i], hmac).ok
    ELSE par_verify_worker(array[i], hmac).ok

Predecessor(i) == IF i = 1 THEN previous ELSE Some(array[i - 1])

AggregateChainOk(i) ==
    IF op = "validateSingle" THEN
        validate_message_value_hash_chain(array[1], previous).ok
    ELSE IF op = "validateBatch" THEN
        validate_message_value_hash_chain(array[i], Predecessor(i)).ok
    ELSE IF op = "validateOOOBatch" THEN
        validate_ooo_message_value_hash_chain(array[i],
            IF i = 1 THEN None ELSE Some(array[i - 1])).ok
    ELSE validate_message_value(array[i]).ok

ScalarChainOk(i) ==
    IF op = "validateBatch" THEN
        validate_message_value_hash_chain(array[i], previous).ok
    ELSE IF op = "validateOOOBatch" THEN
        validate_ooo_message_value_hash_chain(array[i], None).ok
    ELSE validate_message_value(array[i]).ok

Cause == ret[1].val[2]

Quoted == ret[1].val[4]

SigCauses == {InvalidSignature}

ChainOps == Ops \ {"verifySignatures"}

PhaseSteps ==
    {<<"Idle", "Start">>, <<"Start", "KeyRejected">>,
     <<"Start", "VerifyingSignatures">>,
     <<"VerifyingSignatures", "SignatureFailure">>,
     <<"VerifyingSignatures", "ValidatingChain">>,
     <<"ValidatingChain", "ChainFailure">>,
     <<"ValidatingChain", "DerivingKeys">>,
     <<"DerivingKeys", "Success">>}

PhaseInv ==
    op \in ChainOps =>
        /\ pc = "ValidatingChain" =>
               sigRun /\ \A i \in Indices : AggregateSigOk(i)
        /\ pc \in {"VerifyingSignatures", "SignatureFailure"} => ~chainRun
        /\ pc \in {"DerivingKeys", "Success"} =>
               /\ sigRun /\ chainRun
               /\ \A i \in Indices : AggregateSigOk(i) /\ AggregateChainOk(i)
        /\ (pc \in {"SignatureFailure", "ChainFailure"}) => ~ret[2].some
        /\ (Terminal /\ KeyOk /\ \E i \in Indices : ~ScalarSigOk(i)) =>
               /\ pc = "SignatureFailure"
               /\ Cause \in SigCauses

PhaseStep ==
    op' \in ChainOps =>
        /\ pc' # pc => <<pc, pc'>> \in PhaseSteps
        /\ Terminal => UNCHANGED vars

\* C1: in validateSingle, validateBatch, validateOOOBatch and
\* validateMultiAuthorBatch the phases run in the order signatures, chain,
\* key derivation; the chain phase starts only when every signature has
\* verified, key derivation only when both phases succeeded, a failure is
\* terminal, and a call whose messages have both a bad signature and a bad
\* chain field returns the signature failure.
C1_PhaseOrder == [](PhaseInv) /\ [][PhaseStep]_vars

\* C1 witness: a call that holds a message with a bad signature and another
\* with a bad chain field has ended in the signature failure
C1_Witness ==
    /\ pc = "SignatureFailure"
    /\ op = "validateBatch"
    /\ \E i, j \in Indices :
           i # j /\ ~ScalarSigOk(i) /\ ScalarSigOk(j) /\ ~AggregateChainOk(j)

\* C3: a successful batch operation returns one key per input message, the
\* i-th key being derive_key of the i-th message; verifySignatures returns
\* it after the signature phase alone.
C3_OrderedKeys ==
    /\ (pc = "Success" /\ op \in BatchOps) =>
           /\ ~ret[1].some
           /\ ret[2].some
           /\ Len(ret[2].val) = Len(array)
           /\ \A i \in Indices : ret[2].val[i] = derive_key(array[i])
    /\ op = "verifySignatures" =>
           /\ ~chainRun
           /\ (Terminal /\ KeyOk /\ \A i \in Indices : AggregateSigOk(i)) =>
                  pc = "Success"

\* C3 witness: verifySignatures has returned the keys of two distinct
\* messages that do not form a chain
C3_Witness ==
    /\ pc = "Success"
    /\ op = "verifySignatures"
    /\ Len(array) >= 2
    /\ array[1] # array[2]
    /\ ~validate_message_value_hash_chain(array[2], Some(array[1])).ok

\* C4: a finished call has returned either an error and no payload or no
\* error and a payload; a rejected key, a failed signature or a failed chain
\* check returns one error and no key at all, and a rejected key ends the
\* call before any signature or chain check has run.
C4_AllOrNothing ==
    /\ Terminal => (ret[1].some /\ ~ret[2].some) \/ (~ret[1].some /\ ret[2].some)
    /\ ~Terminal => ret = NoRet
    /\ pc \in {"KeyRejected", "SignatureFailure", "ChainFailure"} =>
           ret[1].some /\ ret[2] = None
    /\ pc = "KeyRejected" => ~sigRun /\ ~chainRun
    /\ (Terminal /\ ~KeyOk) => pc = "KeyRejected"
    /\ (Terminal /\ KeyOk /\ \E i \in Indices : ~AggregateSigOk(i)) =>
           pc = "SignatureFailure"
    /\ (Terminal /\ KeyOk /\ op \in ChainOps
          /\ (\A i \in Indices : AggregateSigOk(i))
          /\ (\E j \in Indices : ~AggregateChainOk(j))) =>
           pc = "ChainFailure"

\* C4 witness: a batch whose first two messages are valid has failed at a
\* later message of the chain and returned the error alone
C4_Witness ==
    /\ pc = "ChainFailure"
    /\ Len(array) = 3
    /\ AggregateChainOk(1) /\ AggregateChainOk(2) /\ ~AggregateChainOk(3)
    /\ ret[1].some /\ ~ret[2].some

SigsOk == \A i \in Indices : AggregateSigOk(i)

\* C7: when the aggregate check of a phase fails and the scalar re-check
\* fails for no message, the batch call returns an error and no keys, and
\* the error carries the fixed diagnostic of that phase where the offending
\* message would be quoted.
C7_AttributionFailure ==
    (Terminal /\ KeyOk /\ op \in BatchOps) =>
        /\ (~SigsOk /\ \A i \in Indices : ScalarSigOk(i)) =>
               /\ pc = "SignatureFailure"
               /\ ret[1].some /\ ~ret[2].some
               /\ Quoted = SigDiag
        /\ (op # "verifySignatures" /\ SigsOk
              /\ (\E i \in Indices : ~AggregateChainOk(i))
              /\ (\A j \in Indices : ScalarChainOk(j))) =>
               /\ pc = "ChainFailure"
               /\ ret[1].some /\ ~ret[2].some
               /\ Quoted = ChainDiag

\* C7 witness: validateOOOBatch has failed in the chain phase although every
\* message passes the scalar re-check
C7_Witness ==
    /\ pc = "ChainFailure"
    /\ op = "validateOOOBatch"
    /\ \A i \in Indices : ScalarChainOk(i)
    /\ Quoted = ChainDiag

\* the same anomaly in the signature phase
C7_WitnessSignature ==
    /\ pc = "SignatureFailure"
    /\ op \in BatchOps
    /\ \A i \in Indices : ScalarSigOk(i)
    /\ Quoted = SigDiag

WellFormedPair ==
    /\ Len(array) = 2
    /\ array[1].wellformed /\ array[2].wellformed
    /\ array[2].sequence = array[1].sequence + 1
    /\ array[2].previous = derive_key(array[1])
    /\ array[2].author = array[1].author

PairAccepted ==
    /\ pc = "Success"
    /\ ret = <<None, Some(<<derive_key(array[1]), derive_key(array[2])>>)>>

\* the first message continues the feed the previous argument names
FirstFollowsPrevious ==
    IF previous.some
    THEN /\ array[1].author = previous.val.author
         /\ array[1].sequence = previous.val.sequence + 1
         /\ array[1].previous = derive_key(previous.val)
    ELSE /\ array[1].sequence = 1
         /\ array[1].previous = Null

\* C9 as stated: for any m1, m2 with m2.sequence = m1.sequence + 1,
\* m2.previous = derive_key(m1), m2.author = m1.author and valid signatures,
\* validateBatch([m1, m2]) succeeds and returns [key(m1), key(m2)].
C9_AnyPair ==
    (Terminal /\ op = "validateBatch" /\ KeyOk /\ ~previous.some
       /\ WellFormedPair /\ SigsOk) => PairAccepted

\* C9 amended: the same, provided m1 itself continues the feed named by the
\* previous argument: sequence 1 and previous null when no previous message
\* is given, and sequence, previous key and author matching the previous
\* message when one is given.
C9_ChainedPair ==
    (Terminal /\ op = "validateBatch" /\ KeyOk
       /\ WellFormedPair /\ SigsOk /\ FirstFollowsPrevious) => PairAccepted

\* C9 witness: a pair that continues a given previous message was accepted
C9_Witness ==
    /\ op = "validateBatch"
    /\ previous.some
    /\ WellFormedPair
    /\ PairAccepted

\* i and j are consecutive messages of one author within the batch
ConsecutiveOfAuthor(i, j) ==
    /\ i < j
    /\ array[i].author = array[j].author
    /\ \A m \in (i + 1)..(j - 1) : array[m].author # array[i].author

BrokenSubSequence ==
    \E i, j \in Indices :
        /\ ConsecutiveOfAuthor(i, j)
        /\ \/ array[j].sequence # array[i].sequence + 1
           \/ array[j].previous # derive_key(array[i])

\* C6 as stated: validateMultiAuthorBatch rejects with a chain error every
\* batch in which two consecutive messages of one author have a sequence
\* gap or a previous-key mismatch.
C6_PerAuthorChains ==
    (Terminal /\ op = "validateMultiAuthorBatch" /\ KeyOk /\ SigsOk
       /\ BrokenSubSequence) => pc = "ChainFailure"

\* C6 amended: validateMultiAuthorBatch validates every message on its own
\* and relates no message to another one of the batch: a batch whose
\* signatures verify succeeds iff every message is individually well
\* formed, whatever the sequence numbers and previous keys of its authors'
\* sub-sequences are, and is rejected with a chain error otherwise.
C6_IndependentMessages ==
    (Terminal /\ op = "validateMultiAuthorBatch" /\ KeyOk /\ SigsOk) =>
        IF \A i \in Indices : array[i].wellformed
        THEN pc = "Success"
        ELSE pc = "ChainFailure"

\* C6 witness: a batch with a sequence gap in one author's messages succeeded
C6_Witness ==
    /\ pc = "Success"
    /\ op = "validateMultiAuthorBatch"
    /\ BrokenSubSequence

\* the batch is a valid batch of the operation but for the message at k,
\* which is a corrupted copy of the message that belongs there
CorruptedAt(k) ==
    \E c \in Corruptions :
        /\ array[k] = c[2]
        /\ LET base == [array EXCEPT ![k] = c[1]]
           IN  \A i \in Indices :
                   /\ par_verify_worker(base[i], hmac).ok
                   /\ op = "validateBatch" =>
                          validate_message_value_hash_chain(base[i],
                              IF i = 1 THEN previous ELSE Some(base[i - 1])).ok
                   /\ op = "validateOOOBatch" =>
                          validate_ooo_message_value_hash_chain(base[i],
                              IF i = 1 THEN None ELSE Some(base[i - 1])).ok
                   /\ op = "validateMultiAuthorBatch" =>
                          validate_message_value(base[i]).ok

\* C2: when a batch of valid messages holds one corrupted message, at
\* position k, the error a batch operation returns quotes the message at k.
C2_OffenderAttribution ==
    (Terminal /\ op \in BatchOps /\ KeyOk /\ ret[1].some) =>
        \A k \in Indices : CorruptedAt(k) => Quoted = Text(array[k])

FirstFailure(results) ==
    results[CHOOSE i \in DOMAIN results :
                /\ ~results[i].ok
                /\ \A j \in DOMAIN results : ~results[j].ok => i <= j].err

\* the outcome when the workers complete in input order
InOrderOutcome ==
    LET key == is_valid_hmac_key(hmac_key)
        sigs == [i \in Indices |-> sig_worker(op, array, key.val, i)]
        chain == [i \in Indices |-> chain_worker(op, array, previous, i)]
    IN  IF ~key.ok THEN failure(key.err)
        ELSE IF \E i \in Indices : ~sigs[i].ok
        THEN failure(format(FirstFailure(sigs), sig_offender(op, array, key.val)))
        ELSE IF op # "verifySignatures" /\ \E i \in Indices : ~chain[i].ok
        THEN failure(format(FirstFailure(chain), chain_offender(op, array, previous)))
        ELSE success(payload(op, array))

\* C8: the outcome of a call (success or failure, keys, cause and quoted
\* message of the error) is the same for every completion order of the
\* workers, hence the one obtained when they complete in input order.
C8_ScheduleIndependent == Terminal => ret = InOrderOutcome

\* C10: validateSingle returns (Some(key), None) on success and
\* (None, Some(err_msg)) on failure.
C10_KeyFirst ==
    (Terminal /\ op = "validateSingle") =>
        IF pc = "Success"
        THEN ret[1] = Some(derive_key(array[1])) /\ ~ret[2].some
        ELSE ~ret[1].some /\ ret[2].some

====
